---------------------------- MODULE Spec2Model ----------------------------
(***************************************************************************)
(* Model of security_search (src/index.js): the index synchronizer        *)
(* buildIndex over the two SQLite tables `symbols` (Unit Records) and      *)
(* `embeddings` (Vector Entries, a vss0 virtual table), and the retrieval  *)
(* query runQuery.                                                         *)
(*                                                                         *)
(* buildIndex is modelled statement by statement: every database statement *)
(* and every awaited external call is one step, so that the intermediate   *)
(* states of a run are states of the model.                                *)
(***************************************************************************)
EXTENDS Integers, Sequences, FiniteSets, TLC

(***************************************************************************)
(* Bounds of the model.                                                    *)
(***************************************************************************)
\* number of `node . reindex` runs (buildIndex calls) explored
MaxRuns == 2
\* longest "symbols" array a Summarizer response carries
MaxUnits == 2

(***************************************************************************)
(* The source tree.  TARGET_DIRECTORY is the root; Files are the names of  *)
(* the candidate source files below it (all pass isSourceFile).            *)
(***************************************************************************)
\* directories are sequences of path segments
TARGET_DIRECTORY == <<"kibana", "x-pack", "plugins", "security_solution">>

\* a value of the environment variable that is not the plugin's directory
OTHER_DIRECTORY == <<"kibana", "x-pack", "plugins">>

\* 'x-pack/plugins/security_solution', the argument of includes at line 172
PLUGIN_PATH == <<"x-pack", "plugins", "security_solution">>

Files == {"a.ts", "b.ts"}

\* readdir order of traverseFiles
FileOrder == <<"a.ts", "b.ts">>

\* sha1 digests of the contents a file can have
Hashes == {"H1", "H2"}

\* a path of the file system: the directory and the name below it
PathJoin(directory, file) == <<directory, file>>

\* file.replace(directoryPath, ''): the path with the directory cut off
RelativeFile(file, directoryPath) ==
    IF file[1] = directoryPath THEN file[2] ELSE file

Paths == {PathJoin(TARGET_DIRECTORY, f) : f \in Files}

\* what a path of the tree holds: nothing, a file that cannot be read
\* (createReadStream emits 'error'), or a file with the content of a digest
FsValues == Hashes \cup {"absent", "unreadable"}

(***************************************************************************)
(* Symbol names, as sequences of characters (String.prototype.includes is  *)
(* a substring test).                                                      *)
(***************************************************************************)
KwExport == <<"e","x","p","o","r","t">>
KwImport == <<"i","m","p","o","r","t">>
KwInterface == <<"i","n","t","e","r","f","a","c","e">>
NmImportUsers == <<"i","m","p","o","r","t","U","s","e","r","s">>
NmFoo == <<"f","o","o">>
NmBar == <<"b","a","r">>

Names == {KwExport, KwImport, KwInterface, NmImportUsers, NmFoo, NmBar}

Keywords == {KwExport, KwImport, KwInterface}

\* s.includes(sub)
Includes(s, sub) ==
    \E k \in 0..(Len(s) - Len(sub)) : SubSeq(s, k + 1, k + Len(sub)) = sub

\* the filter without its first test
IsFilteredWithoutExport(symbolName) ==
    \/ Includes(symbolName, KwImport)
    \/ Includes(symbolName, KwInterface)

\* the name filter of the unit loop: TRUE when the item is skipped
IsFiltered(symbolName) ==
    \/ Includes(symbolName, KwExport)
    \/ Includes(symbolName, KwImport)
    \/ Includes(symbolName, KwInterface)

\* the responses generateMetadata can return: the "symbols" arrays
RECURSIVE SeqsUpTo(_, _)
SeqsUpTo(S, n) ==
    IF n = 0 THEN {<<>>}
    ELSE LET shorter == SeqsUpTo(S, n - 1)
         IN  shorter \cup {Append(q, x) : q \in {r \in shorter : Len(r) = n - 1}, x \in S}

Item(symbolName) == [symbolName |-> symbolName]

Responses == SeqsUpTo({Item(n) : n \in Names}, MaxUnits)

(***************************************************************************)
(* The Embedder.  A vector is one integer; the vector of a unit is a       *)
(* function of the text sent (symbolName + ' ' + description).             *)
(***************************************************************************)
EmbeddingOf(symbolName) ==
    CASE symbolName = NmFoo -> 1
      [] symbolName = NmBar -> 4
      [] OTHER -> 2

\* embeddings of the query texts
Queries == {0, 5}

\* Date.now() at line 220: wall-clock milliseconds, far above any rowid
\* SQLite assigns to a row of symbols
Times == {100, 102, 110}

(***************************************************************************)
(* The configuration of the process: the credentials (process.env.OA),     *)
(* the root directory (process.env.TARGET_DIRECTORY) and the length of     *)
(* the vectors the Embedder returns.                                       *)
(***************************************************************************)
\* a(1536): the dimension of the column of the vss0 table
VectorDimension == 1536

ValidConfig == [apiKey |-> TRUE, directoryPath |-> TARGET_DIRECTORY,
                dimension |-> VectorDimension]

\* the valid configuration and the three with one error
Configs ==
    {ValidConfig,
     [ValidConfig EXCEPT !.apiKey = FALSE],
     [ValidConfig EXCEPT !.directoryPath = OTHER_DIRECTORY],
     [ValidConfig EXCEPT !.dimension = VectorDimension + 1]}

(***************************************************************************)
(* State.                                                                  *)
(***************************************************************************)
VARIABLES
    fs,             \* the file system: Paths -> FsValues
    symbols,        \* table symbols: set of rows
    embeddings,     \* table embeddings: rowid -> vector
    pc,             \* position of the process
    knownSymbols,   \* rest of the snapshot iterated by the pruning loop
    outdated,       \* counter of line 195
    sourceFiles,    \* rest of the candidate list of the update loop
    i,              \* rowid counter of line 220
    file,           \* the file of the current iteration (relative name)
    hash,           \* its digest
    items,          \* rest of metadata.symbols of the current file
    tables,         \* the two tables have been created
    config,         \* the configuration of the process
    results,        \* outcome of the last runQuery
    runs,           \* buildIndex calls so far
    status,         \* how the last run ended, while fs is as it left it
    repeat,         \* the run started right after a completed run, fs unchanged
    startSymbols,   \* symbols when the run started
    startEmbeddings,\* embeddings when the run started
    sumCalls,       \* files sent to the Summarizer in this run
    embCalls,       \* files with an Embedder call in this run
    skipped,        \* files skipped by the fingerprint test in this run
    failed,         \* files whose iteration ended in the catch block
    prevFailed,     \* failed of the run before
    last            \* what the last step did

vars == <<config, fs, symbols, embeddings, tables, pc, knownSymbols, outdated, sourceFiles, i,
          file, hash, items, results, runs, status, repeat, startSymbols,
          startEmbeddings, sumCalls, embCalls, skipped, failed, prevFailed, last>>

procVars == <<knownSymbols, outdated, sourceFiles, i, file, hash, items>>
runGhost == <<runs, repeat, startSymbols, startEmbeddings, prevFailed>>
callGhost == <<sumCalls, embCalls, skipped, failed>>

\* a table without rows
EmptyTable == [r \in {} |-> 0]

\* what a step did: its kind, the file and the symbol name it was about, and
\* the items it left unprocessed
Event(kind, f, name, rest) == [kind |-> kind, file |-> f, name |-> name, rest |-> rest]

NoEvent == Event("none", "", <<>>, <<>>)

NoResults == [state |-> "none", query |-> 0, rows |-> <<>>]

InitFrom(configs) ==
    /\ config \in configs
    /\ fs = [p \in Paths |-> "absent"]
    /\ symbols = {}
    /\ embeddings = EmptyTable
    /\ pc = "idle"
    /\ knownSymbols = <<>>
    /\ outdated = 0
    /\ sourceFiles = <<>>
    /\ i = 0
    /\ file = ""
    /\ hash = ""
    /\ items = <<>>
    /\ tables = FALSE
    /\ results = NoResults
    /\ runs = 0
    /\ status = "none"
    /\ repeat = FALSE
    /\ startSymbols = {}
    /\ startEmbeddings = EmptyTable
    /\ sumCalls = {}
    /\ embCalls = {}
    /\ skipped = {}
    /\ failed = {}
    /\ prevFailed = {}
    /\ last = NoEvent

\* the process is configured as the readme says
Init == InitFrom({ValidConfig})

(***************************************************************************)
(* Database statements and lookups.                                        *)
(***************************************************************************)
SetMax(S) == CHOOSE x \in S : \A y \in S : y <= x

\* the rowid SQLite gives a row inserted without one: one more than the
\* largest rowid in use, 1 in an empty table
NextRowid == IF symbols = {} THEN 1 ELSE SetMax({s.rowid : s \in symbols}) + 1

\* SELECT * FROM symbols, in rowid order
RECURSIVE RowsInOrder(_)
RowsInOrder(rows) ==
    IF rows = {} THEN <<>>
    ELSE LET first == CHOOSE r \in rows : \A o \in rows : r.rowid <= o.rowid
         IN  <<first>> \o RowsInOrder(rows \ {first})

\* variant: the subquery selects embedding_id, so the Vector Entries of the
\* file go before its Unit Records do
DeleteFromEmbeddingsByEmbeddingId(filename) ==
    LET gone == {s.embedding_id : s \in {r \in symbols : r.filename = filename}}
    IN  [r \in (DOMAIN embeddings) \ gone |-> embeddings[r]]

\* DELETE FROM embeddings WHERE rowid IN
\*   (SELECT rowid FROM symbols WHERE filename = ?)
\* the subquery selects the rowid of the symbols rows, not their embedding_id
DeleteFromEmbeddings(filename) ==
    LET gone == {s.rowid : s \in {r \in symbols : r.filename = filename}}
    IN  [r \in (DOMAIN embeddings) \ gone |-> embeddings[r]]

\* variant: the WHERE clause is missing, the rows of every file go
DeleteFromSymbolsOfEveryFile(filename) == {s \in symbols : FALSE}

\* DELETE FROM symbols WHERE filename = ?
DeleteFromSymbols(filename) == {s \in symbols : s.filename # filename}

\* INSERT INTO embeddings(rowid, a) VALUES(?, ?)
InsertIntoEmbeddings(rowid, a) ==
    [r \in (DOMAIN embeddings) \cup {rowid} |->
        IF r = rowid THEN a ELSE embeddings[r]]

\* INSERT INTO symbols(embedding_id, filename, hash, metadata) VALUES(?, ?, ?, ?)
InsertIntoSymbols(embedding_id, filename, h, metadata) ==
    symbols \cup {[rowid |-> NextRowid, filename |-> filename, hash |-> h,
                   metadata |-> metadata, embedding_id |-> embedding_id]}

\* existsSync(filename): the path is not joined with the directory and is
\* resolved outside the tree
checkIfFileExistsWithoutJoin(directoryPath, filename) ==
    LET p == PathJoin(<<".">>, filename)
    IN  p \in DOMAIN fs /\ fs[p] # "absent"

\* fsSync.existsSync(path.join(directoryPath, filename))
checkIfFileExistsInTheFilesystem(directoryPath, filename) ==
    fs[PathJoin(directoryPath, filename)] # "absent"

\* the lookup of checkIfFileNameIsKnown pasted in: the digest is compared
\* with the filename column
checkIfFileHashExistsWrongColumn(h) ==
    \E s \in symbols : s.filename = h

\* select * from symbols where hash = ? limit 1
checkIfFileHashExists(h) ==
    \E s \in symbols : s.hash = h

checkIfFileNameIsKnown(filename) ==
    \E s \in symbols : s.filename = filename

\* traverseFiles(directoryPath).filter(isSourceFile)
RECURSIVE traverseFiles(_, _)
traverseFiles(directoryPath, order) ==
    IF order = <<>> THEN <<>>
    ELSE LET p == PathJoin(directoryPath, Head(order))
         IN  (IF fs[p] # "absent" THEN <<p>> ELSE <<>>)
                 \o traverseFiles(directoryPath, Tail(order))

(***************************************************************************)
(* The file system changes only while no run is in progress (changes      *)
(* after the last run explored are left out: no run would see them).       *)
(***************************************************************************)
FsChangeTo(paths, values, maxRuns) ==
    /\ pc = "idle"
    /\ runs < maxRuns
    /\ \E p \in paths, v \in values :
          /\ v # fs[p]
          /\ fs' = [fs EXCEPT ![p] = v]
    /\ status' = "none"
    /\ results' = NoResults
    /\ last' = NoEvent
    /\ UNCHANGED <<config, tables, symbols, embeddings, pc, procVars, runGhost, callGhost>>

FsChange == FsChangeTo(Paths, FsValues, MaxRuns)

(***************************************************************************)
(* buildIndex, lines 171-195: the tables exist, the snapshot is read.      *)
(***************************************************************************)
StartRunUpTo(maxRuns) ==
    /\ pc = "idle"
    /\ runs < maxRuns
    /\ config.apiKey
    /\ Includes(config.directoryPath, PLUGIN_PATH)
    /\ tables' = TRUE
    /\ knownSymbols' = RowsInOrder(symbols)
    /\ outdated' = 0
    /\ pc' = "prune"
    /\ runs' = runs + 1
    /\ repeat' = (status = "completed")
    /\ prevFailed' = IF status = "completed" THEN failed ELSE {}
    /\ status' = "running"
    /\ startSymbols' = symbols
    /\ startEmbeddings' = embeddings
    /\ sumCalls' = {}
    /\ embCalls' = {}
    /\ skipped' = {}
    /\ failed' = {}
    /\ results' = NoResults
    /\ last' = NoEvent
    /\ UNCHANGED <<config, fs, symbols, embeddings, sourceFiles, i, file, hash, items>>

StartRun == StartRunUpTo(MaxRuns)

\* lines 11-15: without process.env.OA the module throws while it loads,
\* for `node . reindex` and for the server alike
LoadFails ==
    /\ pc = "idle"
    /\ runs < MaxRuns
    /\ ~config.apiKey
    /\ runs' = runs + 1
    /\ status' = "fatal"
    /\ results' = NoResults
    /\ last' = Event("noApiKey", "", <<>>, <<>>)
    /\ UNCHANGED <<config, tables, fs, symbols, embeddings, pc, procVars, repeat,
                   startSymbols, startEmbeddings, prevFailed, callGhost>>

\* lines 171-174: buildIndex throws before its first statement
StartRunInvalidPath ==
    /\ pc = "idle"
    /\ runs < MaxRuns
    /\ config.apiKey
    /\ ~Includes(config.directoryPath, PLUGIN_PATH)
    /\ runs' = runs + 1
    /\ status' = "fatal"
    /\ results' = NoResults
    /\ last' = Event("invalidPath", "", <<>>, <<>>)
    /\ UNCHANGED <<config, tables, fs, symbols, embeddings, pc, procVars, repeat,
                   startSymbols, startEmbeddings, prevFailed, callGhost>>

(***************************************************************************)
(* The pruning loop, lines 198-208.                                        *)
(***************************************************************************)
PruneKeep ==
    /\ pc = "prune"
    /\ knownSymbols # <<>>
    /\ checkIfFileExistsInTheFilesystem(TARGET_DIRECTORY, Head(knownSymbols).filename)
    /\ knownSymbols' = Tail(knownSymbols)
    /\ last' = NoEvent
    /\ UNCHANGED <<config, tables, fs, symbols, embeddings, pc, outdated, sourceFiles, i, file,
                   hash, items, results, status, runGhost, callGhost>>

PruneDeleteEmbeddings ==
    /\ pc = "prune"
    /\ knownSymbols # <<>>
    /\ ~checkIfFileExistsInTheFilesystem(TARGET_DIRECTORY, Head(knownSymbols).filename)
    /\ outdated' = outdated + 1
    /\ embeddings' = DeleteFromEmbeddings(Head(knownSymbols).filename)
    /\ pc' = "pruneSymbols"
    /\ last' = Event("pruned", Head(knownSymbols).filename, <<>>, <<>>)
    /\ UNCHANGED <<config, tables, fs, symbols, knownSymbols, sourceFiles, i, file, hash, items,
                   results, status, runGhost, callGhost>>

PruneDeleteSymbols ==
    /\ pc = "pruneSymbols"
    /\ symbols' = DeleteFromSymbols(Head(knownSymbols).filename)
    /\ knownSymbols' = Tail(knownSymbols)
    /\ pc' = "prune"
    /\ UNCHANGED <<config, tables, fs, embeddings, outdated, sourceFiles, i, file, hash, items,
                   results, status, runGhost, callGhost, last>>

(***************************************************************************)
(* Discovery, lines 210-222.                                               *)
(***************************************************************************)
TraverseAt(times) ==
    /\ pc = "prune"
    /\ knownSymbols = <<>>
    /\ sourceFiles' = traverseFiles(TARGET_DIRECTORY, FileOrder)
    /\ \E now \in times : i' = now
    /\ pc' = "file"
    /\ last' = NoEvent
    /\ UNCHANGED <<config, tables, fs, symbols, embeddings, knownSymbols, outdated, file, hash,
                   items, results, status, runGhost, callGhost>>

Traverse == TraverseAt(Times)

(***************************************************************************)
(* The update loop, lines 224-271.                                         *)
(***************************************************************************)
\* the loop is over: buildIndex returns
FinishRun ==
    /\ pc = "file"
    /\ sourceFiles = <<>>
    /\ pc' = "idle"
    /\ status' = "completed"
    /\ i' = 0
    /\ last' = NoEvent
    /\ UNCHANGED <<config, tables, fs, symbols, embeddings, knownSymbols, outdated, sourceFiles,
                   file, hash, items, results, runGhost, callGhost>>

\* lines 227-228, outside the try block: sha1 (or readFile) rejects, the
\* rejection leaves buildIndex and the process ends
ReadFails ==
    /\ pc = "file"
    /\ sourceFiles # <<>>
    /\ fs[Head(sourceFiles)] = "unreadable"
    /\ pc' = "idle"
    /\ status' = "aborted"
    /\ sourceFiles' = <<>>
    /\ i' = 0
    /\ last' = Event("aborted", RelativeFile(Head(sourceFiles), TARGET_DIRECTORY), <<>>, <<>>)
    /\ UNCHANGED <<config, tables, fs, symbols, embeddings, knownSymbols, outdated, file, hash,
                   items, results, runGhost, callGhost>>

\* lines 231-234
SkipKnown ==
    /\ pc = "file"
    /\ sourceFiles # <<>>
    /\ fs[Head(sourceFiles)] \in Hashes
    /\ checkIfFileHashExists(fs[Head(sourceFiles)])
    /\ skipped' = skipped \cup {RelativeFile(Head(sourceFiles), TARGET_DIRECTORY)}
    /\ sourceFiles' = Tail(sourceFiles)
    /\ last' = Event("skipped", RelativeFile(Head(sourceFiles), TARGET_DIRECTORY), <<>>, <<>>)
    /\ UNCHANGED <<config, tables, fs, symbols, embeddings, pc, knownSymbols, outdated, i, file,
                   hash, items, results, status, runGhost, sumCalls, embCalls,
                   failed>>

\* variant: the rows of a known file are deleted before generateMetadata is
\* called, and generateMetadata throws
SummarizerFailsAfterDelete ==
    /\ pc = "file"
    /\ sourceFiles # <<>>
    /\ fs[Head(sourceFiles)] \in Hashes
    /\ ~checkIfFileHashExists(fs[Head(sourceFiles)])
    /\ LET relativeFile == RelativeFile(Head(sourceFiles), TARGET_DIRECTORY)
       IN  /\ sumCalls' = sumCalls \cup {relativeFile}
           /\ failed' = failed \cup {relativeFile}
           /\ symbols' = DeleteFromSymbols(relativeFile)
           /\ last' = Event("summarizerFailed", relativeFile, <<>>, <<>>)
    /\ sourceFiles' = Tail(sourceFiles)
    /\ UNCHANGED <<config, tables, fs, embeddings, pc, knownSymbols, outdated, i, file,
                   hash, items, results, status, runGhost, embCalls, skipped>>

\* lines 238-240 and 266-270: generateMetadata throws (service error,
\* JSON.parse error, schema mismatch); the catch block logs
SummarizerFails ==
    /\ pc = "file"
    /\ sourceFiles # <<>>
    /\ fs[Head(sourceFiles)] \in Hashes
    /\ ~checkIfFileHashExists(fs[Head(sourceFiles)])
    /\ LET relativeFile == RelativeFile(Head(sourceFiles), TARGET_DIRECTORY)
       IN  /\ sumCalls' = sumCalls \cup {relativeFile}
           /\ failed' = failed \cup {relativeFile}
           /\ last' = Event("summarizerFailed", relativeFile, <<>>, <<>>)
    /\ sourceFiles' = Tail(sourceFiles)
    /\ UNCHANGED <<config, tables, fs, symbols, embeddings, pc, knownSymbols, outdated, i, file,
                   hash, items, results, status, runGhost, embCalls, skipped>>

\* lines 238-244: generateMetadata returns; a known file has the DELETE run
SummarizerReturnsFrom(responses) ==
    /\ pc = "file"
    /\ sourceFiles # <<>>
    /\ fs[Head(sourceFiles)] \in Hashes
    /\ ~checkIfFileHashExists(fs[Head(sourceFiles)])
    /\ LET relativeFile == RelativeFile(Head(sourceFiles), TARGET_DIRECTORY)
           knownFile == checkIfFileNameIsKnown(relativeFile)
       IN  /\ sumCalls' = sumCalls \cup {relativeFile}
           /\ file' = relativeFile
           /\ hash' = fs[Head(sourceFiles)]
           /\ embeddings' = IF knownFile THEN DeleteFromEmbeddings(relativeFile)
                                         ELSE embeddings
           /\ \E metadata \in responses :
                 /\ items' = metadata
                 /\ last' = Event("summarized", relativeFile, <<>>, metadata)
    /\ pc' = "unit"
    /\ UNCHANGED <<config, tables, fs, symbols, knownSymbols, outdated, sourceFiles, i, results,
                   status, runGhost, embCalls, skipped, failed>>

SummarizerReturns == SummarizerReturnsFrom(Responses)

\* line 246 with no item left, line 270
FileDone ==
    /\ pc = "unit"
    /\ items = <<>>
    /\ sourceFiles' = Tail(sourceFiles)
    /\ file' = ""
    /\ hash' = ""
    /\ pc' = "file"
    /\ last' = Event("fileDone", file, <<>>, <<>>)
    /\ UNCHANGED <<config, tables, fs, symbols, embeddings, knownSymbols, outdated, i, items,
                   results, status, runGhost, callGhost>>

\* lines 247-257
FilterItem ==
    /\ pc = "unit"
    /\ items # <<>>
    /\ IsFiltered(Head(items).symbolName)
    /\ items' = Tail(items)
    /\ last' = Event("filtered", file, Head(items).symbolName, <<>>)
    /\ UNCHANGED <<config, tables, fs, symbols, embeddings, pc, knownSymbols, outdated,
                   sourceFiles, i, file, hash, results, status, runGhost,
                   callGhost>>

\* line 259 throws: the exception leaves the for loop of the items and is
\* caught at line 266; the iteration of the file is over
EmbedderFails ==
    /\ pc = "unit"
    /\ items # <<>>
    /\ ~IsFiltered(Head(items).symbolName)
    /\ embCalls' = embCalls \cup {file}
    /\ failed' = failed \cup {file}
    /\ last' = Event("embedderFailed", file, Head(items).symbolName, Tail(items))
    /\ items' = <<>>
    /\ sourceFiles' = Tail(sourceFiles)
    /\ file' = ""
    /\ hash' = ""
    /\ pc' = "file"
    /\ UNCHANGED <<config, tables, fs, symbols, embeddings, knownSymbols, outdated, i, results,
                   status, runGhost, sumCalls, skipped>>

\* variant: INSERT OR REPLACE, the row is written whether or not the rowid
\* is in use
InsertEmbeddingOrReplace ==
    /\ pc = "unit"
    /\ items # <<>>
    /\ ~IsFiltered(Head(items).symbolName)
    /\ config.dimension = VectorDimension
    /\ embCalls' = embCalls \cup {file}
    /\ i' = i + 1
    /\ embeddings' = InsertIntoEmbeddings(i + 1, EmbeddingOf(Head(items).symbolName))
    /\ pc' = "insertSymbol"
    /\ last' = Event("embedded", file, Head(items).symbolName, <<>>)
    /\ UNCHANGED <<config, tables, fs, symbols, knownSymbols, outdated, sourceFiles, file, hash,
                   items, results, status, runGhost, sumCalls, skipped, failed>>

\* lines 259-263: the embedding arrives, i is incremented, the row is
\* inserted under the new i
InsertEmbedding ==
    /\ pc = "unit"
    /\ items # <<>>
    /\ ~IsFiltered(Head(items).symbolName)
    /\ config.dimension = VectorDimension
    /\ (i + 1) \notin DOMAIN embeddings
    /\ embCalls' = embCalls \cup {file}
    /\ i' = i + 1
    /\ embeddings' = InsertIntoEmbeddings(i + 1, EmbeddingOf(Head(items).symbolName))
    /\ pc' = "insertSymbol"
    /\ last' = Event("embedded", file, Head(items).symbolName, <<>>)
    /\ UNCHANGED <<config, tables, fs, symbols, knownSymbols, outdated, sourceFiles, file, hash,
                   items, results, status, runGhost, sumCalls, skipped, failed>>

\* line 263 throws: a row of embeddings has the rowid already (constraint
\* violation); caught at line 266
InsertEmbeddingFails ==
    /\ pc = "unit"
    /\ items # <<>>
    /\ ~IsFiltered(Head(items).symbolName)
    /\ config.dimension = VectorDimension
    /\ (i + 1) \in DOMAIN embeddings
    /\ embCalls' = embCalls \cup {file}
    /\ failed' = failed \cup {file}
    /\ i' = i + 1
    /\ last' = Event("insertFailed", file, Head(items).symbolName, Tail(items))
    /\ items' = <<>>
    /\ sourceFiles' = Tail(sourceFiles)
    /\ file' = ""
    /\ hash' = ""
    /\ pc' = "file"
    /\ UNCHANGED <<config, tables, fs, symbols, embeddings, knownSymbols, outdated, results,
                   status, runGhost, sumCalls, skipped>>

\* line 263 throws: the vector has not the dimension of the column; caught
\* at line 266 like any failure of the file
InsertEmbeddingDimensionFails ==
    /\ pc = "unit"
    /\ items # <<>>
    /\ ~IsFiltered(Head(items).symbolName)
    /\ config.dimension # VectorDimension
    /\ embCalls' = embCalls \cup {file}
    /\ failed' = failed \cup {file}
    /\ i' = i + 1
    /\ last' = Event("dimensionMismatch", file, Head(items).symbolName, Tail(items))
    /\ items' = <<>>
    /\ sourceFiles' = Tail(sourceFiles)
    /\ file' = ""
    /\ hash' = ""
    /\ pc' = "file"
    /\ UNCHANGED <<config, tables, fs, symbols, embeddings, knownSymbols, outdated,
                   results, status, runGhost, sumCalls, skipped>>

\* line 264
InsertSymbol ==
    /\ pc = "insertSymbol"
    /\ symbols' = InsertIntoSymbols(i, file, hash, Head(items))
    /\ items' = Tail(items)
    /\ pc' = "unit"
    /\ last' = Event("inserted", file, Head(items).symbolName, <<>>)
    /\ UNCHANGED <<config, tables, fs, embeddings, knownSymbols, outdated, sourceFiles, i, file,
                   hash, results, status, runGhost, callGhost>>

(***************************************************************************)
(* runQuery, lines 274-292.                                                *)
(***************************************************************************)
\* LIMIT 20 of the inner SELECT
SearchLimit == 20

\* the distance vss_search reports (L2 of the flat index)
Distance(a, q) == (a - q) * (a - q)

\* SELECT rowid, distance FROM embeddings WHERE vss_search(a, ?) LIMIT 20:
\* the rowids of the nearest SearchLimit entries; entries at the same
\* distance are taken in the order of the index, forward or backward
NearestHits(q, forward) ==
    LET all == DOMAIN embeddings
        D(e) == Distance(embeddings[e], q)
        before(x, e) == \/ D(x) < D(e)
                        \/ /\ D(x) = D(e)
                           /\ IF forward THEN x < e ELSE x > e
    IN  {e \in all : Cardinality({x \in all : before(x, e)}) < SearchLimit}

\* e JOIN symbols f ON f.embedding_id = e.rowid order by e.distance ASC;
\* rows of equal distance come in the order of the rows of symbols, forward
\* or backward
RECURSIVE OrderByDistance(_, _, _)
OrderByDistance(rows, q, forward) ==
    IF rows = {} THEN <<>>
    ELSE LET D(s) == Distance(embeddings[s.embedding_id], q)
             before(r, o) == \/ D(r) < D(o)
                             \/ /\ D(r) = D(o)
                                /\ IF forward THEN r.rowid <= o.rowid
                                              ELSE r.rowid >= o.rowid
             first == CHOOSE r \in rows : \A o \in rows : before(r, o)
         IN  <<[rowid |-> first.embedding_id, distance |-> D(first),
                filename |-> first.filename, metadata |-> first.metadata]>>
                 \o OrderByDistance(rows \ {first}, q, forward)

runQuery(q, forward) ==
    LET e == NearestHits(q, forward)
    IN  OrderByDistance({f \in symbols : f.embedding_id \in e}, q, forward)

RunQueryFor(queries) ==
    /\ pc = "idle"
    /\ config.apiKey
    /\ config.dimension = VectorDimension
    /\ tables
    /\ results = NoResults
    /\ \E q \in queries, forward \in BOOLEAN :
          results' = [state |-> "ok", query |-> q, rows |-> runQuery(q, forward)]
    /\ last' = NoEvent
    /\ UNCHANGED <<config, tables, fs, symbols, embeddings, pc, procVars, status,
                   runGhost, callGhost>>

RunQuery == RunQueryFor(Queries)

\* generateEmbedding throws for the query (line 276): runQuery rejects
RunQueryFails ==
    /\ pc = "idle"
    /\ config.apiKey
    /\ results = NoResults
    /\ results' = [state |-> "error", query |-> 0, rows |-> <<>>]
    /\ last' = NoEvent
    /\ UNCHANGED <<config, tables, fs, symbols, embeddings, pc, procVars, status,
                   runGhost, callGhost>>

\* the query is embedded, and DB.prepare throws "no such table: embeddings":
\* the database file exists since line 42, the tables only since the first
\* buildIndex (lines 178-191)
RunQueryNoTableFor(queries) ==
    /\ pc = "idle"
    /\ config.apiKey
    /\ ~tables
    /\ results = NoResults
    /\ \E q \in queries :
          results' = [state |-> "noSuchTable", query |-> q, rows |-> <<>>]
    /\ last' = NoEvent
    /\ UNCHANGED <<config, tables, fs, symbols, embeddings, pc, procVars, status,
                   runGhost, callGhost>>

RunQueryNoTable == RunQueryNoTableFor(Queries)

\* vss_search throws: the vector of the query has not the dimension of the
\* column
RunQueryDimensionFails ==
    /\ pc = "idle"
    /\ config.apiKey
    /\ config.dimension # VectorDimension
    /\ tables
    /\ results = NoResults
    /\ \E q \in Queries :
          results' = [state |-> "dimensionMismatch", query |-> q, rows |-> <<>>]
    /\ last' = NoEvent
    /\ UNCHANGED <<config, tables, fs, symbols, embeddings, pc, procVars, status,
                   runGhost, callGhost>>

Next ==
    \/ FsChange
    \/ StartRun
    \/ PruneKeep
    \/ PruneDeleteEmbeddings
    \/ PruneDeleteSymbols
    \/ Traverse
    \/ FinishRun
    \/ ReadFails
    \/ SkipKnown
    \/ SummarizerFails
    \/ SummarizerReturns
    \/ FileDone
    \/ FilterItem
    \/ EmbedderFails
    \/ InsertEmbedding
    \/ InsertEmbeddingFails
    \/ InsertSymbol
    \/ RunQuery
    \/ RunQueryFails
    \/ RunQueryNoTable

Spec == Init /\ [][Next]_vars

(***************************************************************************)
(* The same program started under any configuration of Configs.            *)
(***************************************************************************)
InitConfig == InitFrom(Configs)

NextConfig ==
    \/ FsChange
    \/ StartRun
    \/ PruneKeep
    \/ PruneDeleteEmbeddings
    \/ PruneDeleteSymbols
    \/ Traverse
    \/ FinishRun
    \/ ReadFails
    \/ SkipKnown
    \/ SummarizerFails
    \/ SummarizerReturns
    \/ FileDone
    \/ FilterItem
    \/ EmbedderFails
    \/ InsertEmbedding
    \/ InsertEmbeddingFails
    \/ InsertSymbol
    \/ RunQuery
    \/ RunQueryFails
    \/ RunQueryNoTable
    \/ LoadFails
    \/ StartRunInvalidPath
    \/ InsertEmbeddingDimensionFails
    \/ RunQueryDimensionFails

SpecConfig == InitConfig /\ [][NextConfig]_vars

(***************************************************************************)
(* The same program in an environment that fills the index: one file,     *)
(* a.ts, that comes and goes with the same content; a Summarizer that      *)
(* answers with CrowdUnits units named "foo" or with one unit named "bar"; *)
(* no failing call; a clock that advances from run to run; queries with    *)
(* the embedding 0.  Its behaviours are behaviours of the program; it      *)
(* reaches stores with more than SearchLimit Vector Entries.               *)
(***************************************************************************)
MaxCrowdRuns == 5
CrowdUnits == 10

CrowdResponses == {[k \in 1..CrowdUnits |-> Item(NmFoo)], <<Item(NmBar)>>}

CrowdFsChange ==
    FsChangeTo({PathJoin(TARGET_DIRECTORY, "a.ts")}, {"absent", "H1"}, MaxCrowdRuns)

CrowdStartRun == StartRunUpTo(MaxCrowdRuns)

CrowdTraverse == TraverseAt({100 + 20 * runs})

CrowdSummarizerReturns == SummarizerReturnsFrom(CrowdResponses)

CrowdRunQuery == RunQueryFor({0})

CrowdRunQueryNoTable == RunQueryNoTableFor({0})

NextCrowd ==
    \/ CrowdFsChange
    \/ CrowdStartRun
    \/ PruneKeep
    \/ PruneDeleteEmbeddings
    \/ PruneDeleteSymbols
    \/ CrowdTraverse
    \/ FinishRun
    \/ SkipKnown
    \/ CrowdSummarizerReturns
    \/ FileDone
    \/ InsertEmbedding
    \/ InsertSymbol
    \/ CrowdRunQuery
    \/ CrowdRunQueryNoTable

SpecCrowd == Init /\ [][NextCrowd]_vars

(***************************************************************************)
(* Vocabulary of the properties.                                           *)
(***************************************************************************)
\* a run has returned and the file system is as the run saw it
Completed == pc = "idle" /\ status = "completed"

\* the content digest of a file of the tree ("absent", "unreadable" if none)
Content(f) == fs[PathJoin(TARGET_DIRECTORY, f)]

\* the candidate files of the current traversal
Candidates == {f \in Files : Content(f) # "absent"}

RowsOf(table, f) == {s \in table : s.filename = f}

\* the Unit Records inserted since the run started
Inserted == symbols \ startSymbols

(***************************************************************************)
(* C1: after any completed run every Unit Record has exactly one Vector    *)
(* Entry under its embedding_id and every Vector Entry is referenced by    *)
(* exactly one Unit Record.  The code leaves Vector Entries behind.        *)
(***************************************************************************)
C1_NoOrphans ==
    Completed =>
        /\ \A s \in symbols : s.embedding_id \in DOMAIN embeddings
        /\ \A e \in DOMAIN embeddings :
              Cardinality({s \in symbols : s.embedding_id = e}) = 1

(***************************************************************************)
(* C2: a file with Unit Records that is absent from the tree has, after    *)
(* the run, no Unit Record left and none of the Vector Entries its Unit    *)
(* Records referenced.  The code keeps the Vector Entries.                 *)
(***************************************************************************)
C2_Pruned ==
    Completed =>
        \A f \in Files :
            (Content(f) = "absent" /\ RowsOf(startSymbols, f) # {}) =>
                /\ RowsOf(symbols, f) = {}
                /\ \A s \in RowsOf(startSymbols, f) :
                      s.embedding_id \notin DOMAIN embeddings

(***************************************************************************)
(* C3: a file whose content changed from fingerprint H1 to H2, whose       *)
(* summarization and embedding succeeded and which got new rows has,       *)
(* after the run, no row with H1 and none of the old Vector Entries; a     *)
(* file whose fingerprint is stored has the same rows as before.  The      *)
(* code keeps the old rows.                                                *)
(***************************************************************************)
C3_ChangeDetection ==
    Completed =>
        \A f \in Candidates :
            LET old == RowsOf(startSymbols, f)
            IN  /\ ( /\ old # {}
                     /\ \A s \in old : s.hash # Content(f)
                     /\ f \in sumCalls
                     /\ f \notin failed
                     /\ RowsOf(Inserted, f) # {} ) =>
                        /\ \A s \in RowsOf(symbols, f) : s.hash = Content(f)
                        /\ \A s \in old : s.embedding_id \notin DOMAIN embeddings
                /\ (\E s \in old : s.hash = Content(f)) =>
                        RowsOf(symbols, f) = old

C5_NearestK ==
    (results.state = "ok") =>
        LET q == results.query
            rows == results.rows
            returned == {rows[j].rowid : j \in 1..Len(rows)}
            D(s) == Distance(embeddings[s.embedding_id], q)
            n == IF Cardinality(symbols) < SearchLimit THEN Cardinality(symbols)
                                                       ELSE SearchLimit
        IN  /\ Len(rows) = n
            /\ Cardinality(returned) = n
            /\ \A j \in 1..(Len(rows) - 1) : rows[j].distance <= rows[j + 1].distance
            /\ \A j \in 1..Len(rows) :
                  \E s \in symbols :
                      /\ s.embedding_id = rows[j].rowid
                      /\ s.filename = rows[j].filename
                      /\ s.metadata = rows[j].metadata
                      /\ rows[j].distance = D(s)
            /\ \A s \in symbols :
                  s.embedding_id \notin returned =>
                      \A j \in 1..Len(rows) : rows[j].distance <= D(s)

(***************************************************************************)
(* C6: no failure while handling one file aborts the run: every run        *)
(* returns, and every candidate file has been handled (skipped or sent to  *)
(* the Summarizer) when it does.  The code aborts on a read failure.       *)
(***************************************************************************)
C6_RunContinues ==
    /\ status # "aborted"
    /\ Completed => Candidates \subseteq (skipped \cup sumCalls)

(***************************************************************************)
(* C7: when the Embedder fails for one unit, every sibling after it in     *)
(* the Summarizer's list that passes the name filter is persisted for the  *)
(* file.  The code abandons the siblings.                                  *)
(***************************************************************************)
C7_SiblingsProceed ==
    (last.kind = "embedderFailed") =>
        \A k \in 1..Len(last.rest) :
            ~IsFiltered(last.rest[k].symbolName) =>
                \E s \in RowsOf(Inserted, last.file) : s.metadata = last.rest[k]

(***************************************************************************)
(* C8: a candidate file whose fingerprint is carried by any Unit Record,   *)
(* under any fileId, is skipped: the step calls neither Summarizer nor     *)
(* Embedder and modifies neither store.                                    *)
(***************************************************************************)
C8_ShortCircuit ==
    [][ ( /\ pc = "file"
          /\ sourceFiles # <<>>
          /\ \E s \in symbols : s.hash = fs[Head(sourceFiles)] ) =>
            /\ symbols' = symbols
            /\ embeddings' = embeddings
            /\ sumCalls' = sumCalls
            /\ embCalls' = embCalls
            /\ skipped' = skipped \cup {RelativeFile(Head(sourceFiles), TARGET_DIRECTORY)}
            /\ sourceFiles' = Tail(sourceFiles) ]_vars

\* a file has been skipped whose fingerprint no row of its own carries: the
\* rows with it belong to another file and were inserted earlier in the run
C8_Witness ==
    /\ last.kind = "skipped"
    /\ RowsOf(symbols, last.file) = {}
    /\ \E s \in Inserted : s.hash = Content(last.file) /\ s.filename # last.file

(***************************************************************************)
(* C9: a file whose processing failed in a run has no Unit Record with its *)
(* fingerprint persisted by that run, and in the next run over the         *)
(* unchanged tree it is sent to the Summarizer again.  The code persists   *)
(* the fingerprint with the units inserted before the failure.             *)
(***************************************************************************)
C9_RetryByOmission ==
    /\ Completed =>
          \A f \in failed :
              \A s \in RowsOf(Inserted, f) : s.hash # Content(f)
    /\ (Completed /\ repeat) =>
          \A f \in prevFailed \cap Candidates : f \in sumCalls

(***************************************************************************)
(* C10: a unit named exactly "export", "import" or "interface" is never    *)
(* persisted: no Unit Record carries such a name in any state, and the     *)
(* step that meets such an item changes neither store and calls no         *)
(* Embedder.                                                               *)
(***************************************************************************)
C10_NoiseFiltered ==
    /\ [](\A s \in symbols : s.metadata.symbolName \notin Keywords)
    /\ [][ ( /\ pc = "unit"
             /\ items # <<>>
             /\ Head(items).symbolName \in Keywords ) =>
               /\ symbols' = symbols
               /\ embeddings' = embeddings
               /\ embCalls' = embCalls
               /\ items' = Tail(items) ]_vars

\* the Summarizer returned a unit named "export" and the loop has passed it
C10_Witness ==
    /\ last.kind = "filtered"
    /\ last.name = KwExport

(***************************************************************************)
(* C11: a search against a store with no Vector Entry, the store on which  *)
(* no run has ever been made included, does not fail and returns the empty *)
(* sequence (a failure of the Embedder for the query apart).  The code     *)
(* creates the tables in buildIndex only: before the first run the         *)
(* statement cannot be prepared and runQuery rejects.                      *)
(***************************************************************************)
C11_EmptyStoreSearch ==
    ( /\ results.state \notin {"none", "error"}
      /\ DOMAIN embeddings = {} ) =>
        /\ results.state = "ok"
        /\ results.rows = <<>>

(***************************************************************************)
(* C12: in every state of a run, the states between two statements of the  *)
(* pruning and of the replacement of a file's rows included, every Unit    *)
(* Record present has its Vector Entry present: a run cut at any point     *)
(* leaves Vector Entries without Unit Record at worst.                     *)
(***************************************************************************)
C12_AbortSafety ==
    \A s \in symbols : s.embedding_id \in DOMAIN embeddings

\* between the two DELETE statements of the pruning of a file with rows
C12_Witness ==
    /\ pc = "pruneSymbols"
    /\ knownSymbols # <<>>
    /\ RowsOf(symbols, Head(knownSymbols).filename) # {}

(***************************************************************************)
(* C13: after a completed run all the Unit Records of one file carry the   *)
(* same fingerprint.  The code keeps the rows of the previous content of   *)
(* a changed file beside the new ones.                                     *)
(***************************************************************************)
C13_UniformFingerprint ==
    Completed =>
        \A s \in symbols, t \in symbols :
            s.filename = t.filename => s.hash = t.hash

(***************************************************************************)
(* C14: a search made after a completed run returns no unit of a file      *)
(* that is absent from the tree, and no unit extracted from a previous     *)
(* content of a file that has rows of its current content.  The code       *)
(* returns the units of the previous content.                              *)
(***************************************************************************)
C14_NoStaleResults ==
    (Completed /\ results.state = "ok") =>
        \A j \in 1..Len(results.rows) :
            \A s \in symbols :
                s.embedding_id = results.rows[j].rowid =>
                    /\ Content(s.filename) # "absent"
                    /\ ~ ( /\ s.hash # Content(s.filename)
                           /\ \E t \in RowsOf(symbols, s.filename) :
                                 t.hash = Content(s.filename) )

C16_FilterPrecision ==
    (last.kind = "filtered") => last.name \in Keywords

(***************************************************************************)
(* C17: the statements that handle one file (the pruning of an absent      *)
(* file, the replacement of the rows of a changed file, the insertions)    *)
(* neither delete nor modify a Unit Record of another file nor the Vector  *)
(* Entry of such a record; a file present in the tree whose fingerprint    *)
(* one of its Unit Records carries has, after the run, the Unit Records    *)
(* and the Vector Entries it had before.                                   *)
(***************************************************************************)
C17_CrossFileFrame ==
    /\ [][ LET handled ==
                  IF pc \in {"prune", "pruneSymbols"} /\ knownSymbols # <<>>
                  THEN Head(knownSymbols).filename
                  ELSE IF pc = "file" /\ sourceFiles # <<>>
                       THEN RelativeFile(Head(sourceFiles), TARGET_DIRECTORY)
                       ELSE file
           IN  \A s \in symbols :
                   s.filename # handled =>
                       /\ s \in symbols'
                       /\ s.embedding_id \in DOMAIN embeddings =>
                             /\ s.embedding_id \in DOMAIN embeddings'
                             /\ embeddings'[s.embedding_id] = embeddings[s.embedding_id]
         ]_vars
    /\ [](Completed =>
            \A f \in Candidates :
                (\E s \in RowsOf(startSymbols, f) : s.hash = Content(f)) =>
                    /\ RowsOf(symbols, f) = RowsOf(startSymbols, f)
                    /\ \A s \in RowsOf(startSymbols, f) :
                          /\ s.embedding_id \in DOMAIN embeddings
                          /\ embeddings[s.embedding_id] = startEmbeddings[s.embedding_id])

\* a run has pruned the rows of an absent file and returned; another file,
\* present and with its fingerprint stored, has the rows it had
C17_Witness ==
    /\ Completed
    /\ \E f \in Files, g \in Files :
          /\ f # g
          /\ Content(g) = "absent"
          /\ RowsOf(startSymbols, g) # {}
          /\ RowsOf(symbols, g) = {}
          /\ \E s \in RowsOf(startSymbols, f) : s.hash = Content(f)
          /\ RowsOf(symbols, f) = RowsOf(startSymbols, f)

(***************************************************************************)
(* C18: when the Summarizer fails for a file, the step of the file deletes *)
(* and inserts nothing: both stores are after the step as they were        *)
(* before it, and the rows the file had before the run are still there     *)
(* when the run returns.                                                   *)
(***************************************************************************)
C18_SummarizerFailureKeepsCohort ==
    /\ [][ (last'.kind = "summarizerFailed" /\ sumCalls' # sumCalls) =>
               /\ symbols' = symbols
               /\ embeddings' = embeddings
               /\ embCalls' = embCalls ]_vars
    /\ [](Completed =>
            \A f \in (sumCalls \cap failed) \ embCalls :
                /\ RowsOf(symbols, f) = RowsOf(startSymbols, f)
                /\ \A s \in RowsOf(startSymbols, f) :
                      /\ s.embedding_id \in DOMAIN embeddings
                      /\ embeddings[s.embedding_id] = startEmbeddings[s.embedding_id])

\* the Summarizer has just failed for a file that has rows and whose
\* content is not the content the rows were made from
C18_Witness ==
    /\ last.kind = "summarizerFailed"
    /\ RowsOf(symbols, last.file) # {}
    /\ \A s \in RowsOf(symbols, last.file) : s.hash # Content(last.file)

(***************************************************************************)
(* C19: under a configuration error (no credentials, a root directory      *)
(* that is not the plugin's, an Embedder whose vectors have not the        *)
(* dimension of the Vector Store) a run ends before any Summarizer or      *)
(* Embedder call and before any deletion or insertion, and the error is    *)
(* never handled as the failure of a file.  The code meets the dimension   *)
(* error at the INSERT of each unit, inside the try block of the file.     *)
(***************************************************************************)
ConfigError ==
    \/ ~config.apiKey
    \/ ~Includes(config.directoryPath, PLUGIN_PATH)
    \/ config.dimension # VectorDimension

C19_ConfigErrorsFatal ==
    ConfigError =>
        /\ sumCalls = {}
        /\ embCalls = {}
        /\ failed = {}
        /\ symbols = {}
        /\ DOMAIN embeddings = {}

=============================================================================
